---- MODULE Spec2Model ----
(***************************************************************************)
(* State-machine model of src/src/server.js (lines 1-385): the posts CRUD  *)
(* handlers, the signup/login/me handlers, the utility handlers, the token *)
(* codec, the seed-on-empty bootstrap and startServer, over a SQLite store *)
(* with two AUTOINCREMENT tables.                                          *)
(*                                                                         *)
(* A JavaScript string is a sequence of character codes (ASCII), so that   *)
(* trim, toLowerCase, split, Number and the base64url codec are computed   *)
(* character by character as the runtime computes them.                    *)
(***************************************************************************)
EXTENDS Integers, Sequences, FiniteSets, TLC

(* ------------------------------ bounds -------------------------------- *)

\* The clock (milliseconds) runs over 0..MaxClock.
MaxClock == 1

\* POST /api/posts is answered while the id it assigns is at most MaxPostId.
MaxPostId == 4

\* A restart seeds an empty posts table while the ids stay within MaxSeedId
\* (the seed takes three ids at a time).
MaxSeedId == 6

\* At most MaxInflight requests are held by the event loop at a time.
MaxInflight == 2

(* --------------------------- string helpers --------------------------- *)

\* Characters String.prototype.trim strips (the ASCII ones).
WhiteSpace == {9, 10, 11, 12, 13, 32}

Colon == <<58>>

RECURSIVE trimStart(_)
trimStart(s) ==
    IF s # <<>> /\ Head(s) \in WhiteSpace THEN trimStart(Tail(s)) ELSE s

RECURSIVE trimEnd(_)
trimEnd(s) ==
    IF s # <<>> /\ s[Len(s)] \in WhiteSpace
    THEN trimEnd(SubSeq(s, 1, Len(s) - 1))
    ELSE s

\* String.prototype.trim
trim(s) == trimEnd(trimStart(s))

\* String.prototype.toLowerCase on ASCII: 'A'..'Z' become 'a'..'z'.
RECURSIVE toLowerCase(_)
toLowerCase(s) ==
    IF s = <<>> THEN <<>>
    ELSE <<IF Head(s) \in 65..90 THEN Head(s) + 32 ELSE Head(s)>>
         \o toLowerCase(Tail(s))

\* String.prototype.startsWith
startsWith(s, p) == Len(s) >= Len(p) /\ SubSeq(s, 1, Len(p)) = p

\* String.prototype.slice(n): the string from offset n on.
slice(s, n) == SubSeq(s, n + 1, Len(s))

\* String(n) of a non-negative integer: its decimal digits.
RECURSIVE ToStr(_)
ToStr(n) ==
    IF n < 10 THEN <<48 + n>> ELSE ToStr(n \div 10) \o <<48 + (n % 10)>>

\* The value Number() gives for a string that is not a numeric literal.
NaN == -1

RECURSIVE DigitsValue(_)
DigitsValue(s) ==
    IF s = <<>> THEN 0
    ELSE DigitsValue(SubSeq(s, 1, Len(s) - 1)) * 10 + (s[Len(s)] - 48)

\* Number(string): surrounding white space is ignored, the empty string is 0,
\* a run of decimal digits is its value, anything else is NaN.  (Signs,
\* fractions, exponents, radix prefixes and "Infinity" are outside the
\* strings this model feeds to Number.)
Number(s) ==
    LET t == trim(s)
    IN  IF t = <<>> THEN 0
        ELSE IF \A i \in 1..Len(t) : t[i] \in 48..57 THEN DigitsValue(t)
        ELSE NaN

\* Number.isInteger
isInteger(x) == x # NaN

\* The number a JSON literal beyond the double range (1e999) parses to.
Infinity == -2

\* Number.isFinite that lets Infinity through.
isFiniteOrInfinity(x) == x # NaN

\* Number.isFinite
isFinite(x) == x # NaN /\ x # Infinity

\* Number(value) of a JSON value or of undefined (a missing property):
\* undefined is NaN, null is 0, true is 1, false is 0, a number is itself,
\* a string is read as a numeric literal, an object ({}) is NaN.
ToNumber(v) ==
    IF v.type = "undefined" THEN NaN
    ELSE IF v.type = "null" THEN 0
    ELSE IF v.type = "boolean" THEN (IF v.value THEN 1 ELSE 0)
    ELSE IF v.type = "number" THEN v.value
    ELSE IF v.type = "string" THEN Number(v.value)
    ELSE NaN

IndexOf(s, c) ==
    IF \E i \in 1..Len(s) : s[i] = c
    THEN CHOOSE i \in 1..Len(s) : s[i] = c /\ \A j \in 1..(i - 1) : s[j] # c
    ELSE 0

\* String.prototype.split(":"): every segment between separators.
RECURSIVE split(_, _)
split(s, c) ==
    LET i == IndexOf(s, c)
    IN  IF i = 0 THEN <<s>>
        ELSE <<SubSeq(s, 1, i - 1)>> \o split(SubSeq(s, i + 1, Len(s)), c)

\* Comparison of two strings of digits of equal length (ISO timestamps are
\* stored as TEXT and compare character by character).
RECURSIVE StrLess(_, _)
StrLess(a, b) ==
    IF a = <<>> \/ b = <<>> THEN a = <<>> /\ b # <<>>
    ELSE IF Head(a) # Head(b) THEN Head(a) < Head(b)
    ELSE StrLess(Tail(a), Tail(b))

(* ---------------------------- base64url ------------------------------- *)

\* The base64url alphabet: the character of a 6-bit value.
Base64Char(v) ==
    IF v < 26 THEN 65 + v
    ELSE IF v < 52 THEN 97 + (v - 26)
    ELSE IF v < 62 THEN 48 + (v - 52)
    ELSE IF v = 62 THEN 45
    ELSE 95

\* The decoder's table: the 6-bit value of a character, 64 for a character
\* outside both base64 alphabets.
unbase64(c) ==
    IF c \in 65..90 THEN c - 65
    ELSE IF c \in 97..122 THEN c - 97 + 26
    ELSE IF c \in 48..57 THEN c - 48 + 52
    ELSE IF c \in {45, 43} THEN 62
    ELSE IF c \in {95, 47} THEN 63
    ELSE 64

\* Buffer.from(text) for ASCII text followed by toString("base64url"):
\* three bytes become four characters, no padding is written.
RECURSIVE Base64UrlEncode(_)
Base64UrlEncode(b) ==
    IF b = <<>> THEN <<>>
    ELSE IF Len(b) = 1 THEN
        <<Base64Char(b[1] \div 4), Base64Char((b[1] % 4) * 16)>>
    ELSE IF Len(b) = 2 THEN
        <<Base64Char(b[1] \div 4),
          Base64Char((b[1] % 4) * 16 + (b[2] \div 16)),
          Base64Char((b[2] % 16) * 4)>>
    ELSE
        <<Base64Char(b[1] \div 4),
          Base64Char((b[1] % 4) * 16 + (b[2] \div 16)),
          Base64Char((b[2] % 16) * 4 + (b[3] \div 64)),
          Base64Char(b[3] % 64)>>
        \o Base64UrlEncode(SubSeq(b, 4, Len(b)))

\* The decoder reads the 6-bit values of the legal characters, skips every
\* other character and stops at the first '='.
RECURSIVE Sextets(_)
Sextets(s) ==
    IF s = <<>> THEN <<>>
    ELSE IF unbase64(Head(s)) < 64 THEN <<unbase64(Head(s))>> \o Sextets(Tail(s))
    ELSE IF Head(s) = 61 THEN <<>>
    ELSE Sextets(Tail(s))

\* Four 6-bit values give three bytes; a rest of two or three values gives
\* one or two bytes, a rest of one gives none.
RECURSIVE SextetsToBytes(_)
SextetsToBytes(q) ==
    IF Len(q) < 2 THEN <<>>
    ELSE IF Len(q) = 2 THEN <<q[1] * 4 + (q[2] \div 16)>>
    ELSE IF Len(q) = 3 THEN
        <<q[1] * 4 + (q[2] \div 16), (q[2] % 16) * 16 + (q[3] \div 4)>>
    ELSE
        <<q[1] * 4 + (q[2] \div 16),
          (q[2] % 16) * 16 + (q[3] \div 4),
          (q[3] % 4) * 64 + q[4]>>
        \o SextetsToBytes(SubSeq(q, 5, Len(q)))

\* Buffer.toString("utf8"): an ASCII byte is its character; a byte outside
\* ASCII is shown as U+FFFD (multi-byte sequences are not modelled).
RECURSIVE Utf8Decode(_)
Utf8Decode(b) ==
    IF b = <<>> THEN <<>>
    ELSE <<IF Head(b) < 128 THEN Head(b) ELSE 65533>> \o Utf8Decode(Tail(b))

\* Buffer.from(token, "base64url").toString("utf8"); it never throws.
Base64UrlDecode(token) == Utf8Decode(SextetsToBytes(Sextets(token)))

(* ------------------------------ literals ------------------------------ *)

\* "First post", "Second post", "Third post" and their contents (lines 71-73).
SeedPosts ==
    << [title   |-> <<70, 105, 114, 115, 116, 32, 112, 111, 115, 116>>,
        content |-> <<84, 104, 105, 115, 32, 105, 115, 32, 115, 97, 109, 112,
                      108, 101, 32, 115, 101, 101, 100, 32, 100, 97, 116, 97,
                      32, 102, 111, 114, 32, 67, 82, 85, 68, 32, 100, 101, 109,
                      111, 46>>],
       [title   |-> <<83, 101, 99, 111, 110, 100, 32, 112, 111, 115, 116>>,
        content |-> <<84, 114, 121, 32, 108, 105, 115, 116, 47, 100, 101, 116,
                      97, 105, 108, 47, 99, 114, 101, 97, 116, 101, 47, 101,
                      100, 105, 116, 47, 100, 101, 108, 101, 116, 101, 32, 102,
                      108, 111, 119, 46>>],
       [title   |-> <<84, 104, 105, 114, 100, 32, 112, 111, 115, 116>>,
        content |-> <<68, 97, 116, 97, 32, 105, 115, 32, 112, 101, 114, 115,
                      105, 115, 116, 101, 100, 32, 105, 110, 32, 83, 81, 76,
                      105, 116, 101, 32, 100, 97, 116, 97, 98, 97, 115, 101,
                      46>>] >>

\* The seed posts of the posts-only version of the server (lines 448-450).
LegacySeedPosts ==
    << [title   |-> <<52395, 32, 48264, 51704, 32, 44544>>,
        content |-> <<67, 82, 85, 68, 32, 50696, 49884, 47484, 32, 50948,
                      54620, 32, 49368, 54540, 32, 45936, 51060, 53552, 51077,
                      45768, 45796, 46>>],
       [title   |-> <<46160, 32, 48264, 51704, 32, 44544>>,
        content |-> <<47785, 47197, 47, 49345, 49464, 47, 50416, 44592, 47,
                      49688, 51221, 47, 49325, 51228, 32, 46972, 50864, 53944,
                      47484, 32, 54869, 51064, 54644, 48372, 49464, 50836, 46>>],
       [title   |-> <<49464, 32, 48264, 51704, 32, 44544>>,
        content |-> <<83, 81, 76, 105, 116, 101, 32, 51200, 51109, 49548,
                      46972, 32, 49436, 48260, 32, 51116, 49884, 51089, 32,
                      54980, 50640, 46020, 32, 45936, 51060, 53552, 44032, 32,
                      50976, 51648, 46121, 45768, 45796, 46>>] >>

\* "Demo User", "demo@sample.com", "1234" (line 81).
SeedUser ==
    [name     |-> <<68, 101, 109, 111, 32, 85, 115, 101, 114>>,
     email    |-> <<100, 101, 109, 111, 64, 115, 97, 109, 112, 108, 101, 46,
                    99, 111, 109>>,
     password |-> <<49, 50, 51, 52>>]

\* "Guest" (line 328).
Guest == <<71, 117, 101, 115, 116>>

\* "Hello, <name>!" (line 330).
Hello(name) == <<72, 101, 108, 108, 111, 44, 32>> \o name \o <<33>>

\* "Bearer " (line 111).
Bearer == <<66, 101, 97, 114, 101, 114, 32>>

(* --------------------------- request inputs --------------------------- *)

\* The :id path parameter of DELETE: "1".."MaxSeedId", "abc" and "99999".
IdInputs ==
    {ToStr(i) : i \in 1..MaxSeedId} \cup {<<97, 98, 99>>, <<57, 57, 57, 57, 57>>}

\* The :id path parameter of GET and PUT: a seed post, the first post a
\* request creates, "abc" and "99999".
EditIdInputs == {<<49>>, <<52>>, <<97, 98, 99>>, <<57, 57, 57, 57, 57>>}

\* Request bodies of POST and PUT: no title, no content, both given.
BodyInputs ==
    {[title |-> <<>>, content |-> <<99, 32>>],
     [title |-> <<32, 116>>, content |-> <<>>],
     [title |-> <<32, 116>>, content |-> <<99, 32>>]}

\* "Demo@sample.com": the seed user's email with a capital letter.
DemoEmailInput ==
    <<68, 101, 109, 111, 64, 115, 97, 109, 112, 108, 101, 46, 99, 111, 109>>

\* Signup bodies: names "" and "N", emails "", "a", " A", "a:c" and
\* "Demo@sample.com", passwords "" and "p".
SignupInputs ==
    {[name |-> <<>>, email |-> <<97>>, password |-> <<112>>],
     [name |-> <<78>>, email |-> <<>>, password |-> <<112>>],
     [name |-> <<78>>, email |-> <<97>>, password |-> <<>>],
     [name |-> <<>>, email |-> <<32, 65>>, password |-> <<>>],
     [name |-> <<78>>, email |-> <<97>>, password |-> <<112>>],
     [name |-> <<78>>, email |-> <<32, 65>>, password |-> <<112>>],
     [name |-> <<78>>, email |-> <<97, 58, 99>>, password |-> <<112>>],
     [name |-> <<78>>, email |-> DemoEmailInput, password |-> <<112>>]}

\* Login bodies: the same emails, passwords "", "p", "p ", "q" and "1234".
LoginInputs ==
    {[email |-> <<>>, password |-> <<112>>],
     [email |-> <<97>>, password |-> <<>>],
     [email |-> <<97>>, password |-> <<112>>],
     [email |-> <<32, 65>>, password |-> <<112, 32>>],
     [email |-> <<97>>, password |-> <<113>>],
     [email |-> <<97, 58, 99>>, password |-> <<112>>],
     [email |-> DemoEmailInput, password |-> SeedUser.password],
     [email |-> SeedUser.email, password |-> <<112>>]}

\* The name query parameter of GET /api/greeting: absent, " " and "Bo ".
GreetingInputs == {<<>>, <<32>>, <<66, 111, 32>>}

\* The properties a and b of the body of POST /api/sum: missing, null, true,
\* false, 2, 3, 1e999, "x", "", " 5 " and {}.
SumInputs ==
    {[type |-> "undefined"],
     [type |-> "null"],
     [type |-> "boolean", value |-> TRUE],
     [type |-> "boolean", value |-> FALSE],
     [type |-> "number", value |-> 2],
     [type |-> "number", value |-> 3],
     [type |-> "number", value |-> Infinity],
     [type |-> "string", value |-> <<120>>],
     [type |-> "string", value |-> <<>>],
     [type |-> "string", value |-> <<32, 53, 32>>],
     [type |-> "object"]}

(* ------------------------------- state -------------------------------- *)

VARIABLES
    posts,            \* rows of table posts
    postSeq,          \* sqlite_sequence entry of table posts
    users,            \* rows of table users
    userSeq,          \* sqlite_sequence entry of table users
    clock,            \* the system clock, in milliseconds
    proc,             \* the server process: "stopped", "starting", "binding",
                      \* "running", "exited" or "crashed"
    req,              \* the request handled by the last step, if any
    resp,             \* the response sent by the last step, if any
    assignedPostIds,  \* history: every id ever given to a post
    assignedUserIds,  \* history: every id ever given to a user
    deletedIds,       \* history: post ids a DELETE answered with 200
    created,          \* history: create responses of posts not touched since
    issued,           \* history: the issued token that is followed, with its user
    envPort,          \* process.env.PORT: unset, or its string
    inUse,            \* the ports other processes hold
    port,             \* the port of the latest bind attempt
    retriesLeft,      \* the retry budget of the latest bind attempt
    attempts,         \* history: the ports app.listen was called with, in order
    exitCode,         \* the code the process exited with, if it has
    inflight,         \* the requests the event loop holds, each with its position
    running           \* the request whose handler is on the call stack, 0 if none

storeVars == <<posts, postSeq, users, userSeq>>
postVars == <<posts, postSeq, assignedPostIds, deletedIds, created>>
userVars == <<users, userSeq, assignedUserIds, issued>>
bootVars == <<envPort, inUse, port, retriesLeft, attempts, exitCode>>
loopVars == <<inflight, running>>
vars ==
    <<posts, postSeq, users, userSeq, clock, proc, req, resp,
      assignedPostIds, assignedUserIds, deletedIds, created, issued,
      envPort, inUse, port, retriesLeft, attempts, exitCode,
      inflight, running>>

\* null / undefined, and a value that is there.
None == [some |-> FALSE]
Some(v) == [some |-> TRUE, value |-> v]

\* Line 9: the port when process.env.PORT is unset, empty, 0 or no number.
DefaultPort == 4000

\* Line 9: Number(process.env.PORT) || 4000
PORT(env) ==
    IF ~env.some THEN DefaultPort
    ELSE IF Number(env.value) \in {NaN, 0} THEN DefaultPort
    ELSE Number(env.value)

\* Line 358: retriesLeft = 10
DefaultRetries == 10

\* A slot of the event loop that holds no request.
Absent == [pc |-> "absent"]

(* ------------------------------ envelope ------------------------------ *)

sendSuccess(data, status) == [success |-> TRUE, status |-> status, data |-> data]

sendError(error, status) == [success |-> FALSE, status |-> status, error |-> error]

NoRequest == [op |-> "none"]
NoResponse == [success |-> FALSE, status |-> 0, error |-> "none"]

(* ------------------------------- clock -------------------------------- *)

\* new Date().toISOString(): fixed-width fields, most significant first.
\* Within the model's horizon only the milliseconds field ".sss" changes;
\* it is the part of the string kept here.
toISOString(t) ==
    LET d == ToStr(t % 1000)
    IN  IF Len(d) = 1 THEN <<48, 48>> \o d
        ELSE IF Len(d) = 2 THEN <<48>> \o d
        ELSE d

(* ------------------------------ storage ------------------------------- *)

MaxRowid(rows) ==
    IF rows = {} THEN 0
    ELSE CHOOSE m \in {r.id : r \in rows} : \A r \in rows : r.id <= m

\* Plain rowid allocation, without AUTOINCREMENT: one more than the largest
\* rowid the table holds now.
NextRowidReuse(seq, rows) == MaxRowid(rows) + 1

\* INTEGER PRIMARY KEY AUTOINCREMENT: one more than the largest rowid the
\* table has ever held (kept in sqlite_sequence).
NextRowid(seq, rows) ==
    (IF seq > MaxRowid(rows) THEN seq ELSE MaxRowid(rows)) + 1

\* INSERT INTO posts (title, content, created_at, updated_at) VALUES (?,?,?,?)
InsertPost(db, title, content, now) ==
    LET id == NextRowid(db.seq, db.rows)
    IN  [rows |-> db.rows \cup {[id |-> id, title |-> title, content |-> content,
                                 createdAt |-> now, updatedAt |-> now]},
         seq |-> IF id > db.seq THEN id ELSE db.seq,
         lastInsertRowid |-> id]

\* SELECT ... FROM posts WHERE id = ? / FROM users WHERE id = ?
SelectById(rows, id) == {r \in rows : r.id = id}

\* ORDER BY id ASC
RECURSIVE OrderByIdAsc(_)
OrderByIdAsc(rows) ==
    IF rows = {} THEN <<>>
    ELSE LET low == CHOOSE r \in rows : \A o \in rows : r.id <= o.id
         IN  <<low>> \o OrderByIdAsc(rows \ {low})

\* SELECT ... FROM posts ORDER BY id DESC
RECURSIVE OrderByIdDesc(_)
OrderByIdDesc(rows) ==
    IF rows = {} THEN <<>>
    ELSE LET top == CHOOSE r \in rows : \A o \in rows : o.id <= r.id
         IN  <<top>> \o OrderByIdDesc(rows \ {top})

\* An UPDATE that also writes created_at.
UpdateRowTouchesCreatedAt(rows, id, title, content, now) ==
    [rows |-> {IF r.id = id
               THEN [r EXCEPT !.title = title, !.content = content,
                              !.createdAt = now, !.updatedAt = now]
               ELSE r : r \in rows},
     changes |-> Cardinality({r \in rows : r.id = id})]

\* UPDATE posts SET title = ?, content = ?, updated_at = ? WHERE id = ?
UpdateRow(rows, id, title, content, now) ==
    [rows |-> {IF r.id = id
               THEN [r EXCEPT !.title = title, !.content = content,
                              !.updatedAt = now]
               ELSE r : r \in rows},
     changes |-> Cardinality(SelectById(rows, id))]

\* DELETE FROM posts WHERE id <= ?
DeleteRowAtMost(rows, id) ==
    [rows |-> {r \in rows : r.id > id},
     changes |-> Cardinality({r \in rows : r.id <= id})]

\* DELETE FROM posts WHERE id = ?
DeleteRow(rows, id) ==
    [rows |-> {r \in rows : r.id # id},
     changes |-> Cardinality(SelectById(rows, id))]

\* SELECT ... FROM users WHERE name = ?
SelectByName(rows, email) == {r \in rows : r.name = email}

\* SELECT ... FROM users WHERE email = ?
SelectByEmail(rows, email) == {r \in rows : r.email = email}

\* An INSERT that also stamps updated_at on every row the table holds.
InsertUserTouchesAll(db, name, email, password, now) ==
    LET id == NextRowid(db.seq, db.rows)
    IN  [rows |-> {[r EXCEPT !.updatedAt = <<57, 57, 57>>] : r \in db.rows}
                  \cup {[id |-> id, name |-> name, email |-> email,
                          password |-> password,
                          createdAt |-> now, updatedAt |-> now]},
         seq |-> IF id > db.seq THEN id ELSE db.seq,
         lastInsertRowid |-> id,
         threw |-> FALSE]

\* INSERT INTO users (...): the UNIQUE constraint on email makes the
\* statement throw and leave the table as it was.
InsertUser(db, name, email, password, now) ==
    LET id == NextRowid(db.seq, db.rows)
    IN  IF \E r \in db.rows : r.email = email
        THEN [rows |-> db.rows, seq |-> db.seq, lastInsertRowid |-> 0,
              threw |-> TRUE]
        ELSE [rows |-> db.rows \cup {[id |-> id, name |-> name, email |-> email,
                                      password |-> password,
                                      createdAt |-> now, updatedAt |-> now]},
              seq |-> IF id > db.seq THEN id ELSE db.seq,
              lastInsertRowid |-> id,
              threw |-> FALSE]

\* SELECT ... FROM users WHERE id = ?
SelectByIdOnly(rows, id, email) == {r \in rows : r.id = id}

\* SELECT ... FROM users WHERE id = ? AND email = ?
SelectByIdAndEmail(rows, id, email) ==
    {r \in rows : r.id = id /\ r.email = email}

(* ----------------------------- bootstrap ------------------------------ *)

\* A bootstrap that seeds the posts whatever the table holds.
BootstrapPostsAlways(db, now) ==
    LET a == InsertPost(db, SeedPosts[1].title, SeedPosts[1].content, now)
        b == InsertPost(a, SeedPosts[2].title, SeedPosts[2].content, now)
    IN  InsertPost(b, SeedPosts[3].title, SeedPosts[3].content, now)

\* Lines 65-74: three seed posts when the table holds no row.
BootstrapPosts(db, now) ==
    IF Cardinality(db.rows) = 0
    THEN LET a == InsertPost(db, SeedPosts[1].title, SeedPosts[1].content, now)
             b == InsertPost(a, SeedPosts[2].title, SeedPosts[2].content, now)
         IN  InsertPost(b, SeedPosts[3].title, SeedPosts[3].content, now)
    ELSE [rows |-> db.rows, seq |-> db.seq, lastInsertRowid |-> 0]

\* Lines 76-82: the demo user when the table holds no row.
BootstrapUsers(db, now) ==
    IF Cardinality(db.rows) = 0
    THEN InsertUser(db, SeedUser.name, SeedUser.email, SeedUser.password, now)
    ELSE [rows |-> db.rows, seq |-> db.seq, lastInsertRowid |-> 0,
          threw |-> FALSE]

Ids(rows) == {r.id : r \in rows}

\* The first start, on an empty database file, with PORT unset and the
\* default port free: the server listens on it at the first attempt.
Init ==
    LET p == BootstrapPosts([rows |-> {}, seq |-> 0], toISOString(0))
        u == BootstrapUsers([rows |-> {}, seq |-> 0], toISOString(0))
    IN  /\ posts = p.rows
        /\ postSeq = p.seq
        /\ users = u.rows
        /\ userSeq = u.seq
        /\ clock = 0
        /\ proc = "running"
        /\ req = NoRequest
        /\ resp = NoResponse
        /\ assignedPostIds = Ids(p.rows)
        /\ assignedUserIds = Ids(u.rows)
        /\ deletedIds = {}
        /\ created = {}
        /\ issued = {}
        /\ envPort = None
        /\ inUse = {}
        /\ port = PORT(None)
        /\ retriesLeft = DefaultRetries
        /\ attempts = <<PORT(None)>>
        /\ exitCode = None
        /\ inflight = [i \in 1..MaxInflight |-> Absent]
        /\ running = 0

\* The rows a run of the posts-only version (lines 429-451) left in table
\* posts: its three seed posts, written at time 0.
LegacyRows ==
    {[id |-> i, title |-> LegacySeedPosts[i].title,
      content |-> LegacySeedPosts[i].content,
      createdAt |-> toISOString(0), updatedAt |-> toISOString(0)] : i \in 1..3}

\* The database files a first start of this version can find: no file, or
\* the file of the posts-only version, which has no table users and whose
\* table posts holds all its seed posts, the last of them, or none any more.
DatabaseFiles ==
    {[posts |-> {}, postSeq |-> 0],
     [posts |-> LegacyRows, postSeq |-> 3],
     [posts |-> {r \in LegacyRows : r.id = 3}, postSeq |-> 3],
     [posts |-> {}, postSeq |-> 3]}

\* Before the first start: the process is not running and the database
\* file is one of DatabaseFiles; CREATE TABLE IF NOT EXISTS users finds no
\* table and makes an empty one.
SeedInit ==
    /\ \E file \in DatabaseFiles : posts = file.posts /\ postSeq = file.postSeq
    /\ users = {}
    /\ userSeq = 0
    /\ clock = 0
    /\ proc = "stopped"
    /\ req = NoRequest
    /\ resp = NoResponse
    /\ assignedPostIds = 1..postSeq
    /\ assignedUserIds = {}
    /\ deletedIds = {}
    /\ created = {}
    /\ issued = {}
    /\ envPort = None
    /\ inUse = {}
    /\ port = PORT(None)
    /\ retriesLeft = DefaultRetries
    /\ attempts = <<>>
    /\ exitCode = None
    /\ inflight = [i \in 1..MaxInflight |-> Absent]
    /\ running = 0

\* The process is stopped and started again on the same database file: the
\* module body runs again (CREATE TABLE IF NOT EXISTS, then the two seeds).
Restart ==
    LET now == toISOString(clock)
        p == BootstrapPosts([rows |-> posts, seq |-> postSeq], now)
        u == BootstrapUsers([rows |-> users, seq |-> userSeq], now)
    IN  /\ posts = {} => postSeq + Len(SeedPosts) <= MaxSeedId
        /\ posts' = p.rows
        /\ postSeq' = p.seq
        /\ users' = u.rows
        /\ userSeq' = u.seq
        /\ proc' = "running"
        /\ req' = NoRequest
        /\ resp' = NoResponse
        /\ assignedPostIds' = assignedPostIds \cup (Ids(p.rows) \ Ids(posts))
        /\ assignedUserIds' = assignedUserIds \cup (Ids(u.rows) \ Ids(users))
        /\ UNCHANGED <<clock, deletedIds, created, issued, bootVars, loopVars>>

\* Time passes.
Tick ==
    /\ clock < MaxClock
    /\ clock' = clock + 1
    /\ req' = NoRequest
    /\ resp' = NoResponse
    /\ UNCHANGED <<proc, bootVars, loopVars, postVars, userVars>>

(* ------------------------- validation, codec -------------------------- *)

\* An id parser that reads a non-numeric parameter as 0.
parseIdOrZero(idParam) == IF Number(idParam) = NaN THEN 0 ELSE Number(idParam)

\* Line 22.
parseId(idParam) == Number(idParam)

\* The fields are checked trimmed and returned as submitted.
validatePostInputNoTrim(body) ==
    IF trim(body.title) = <<>> THEN [ok |-> FALSE, error |-> "title is required."]
    ELSE IF trim(body.content) = <<>>
    THEN [ok |-> FALSE, error |-> "content is required."]
    ELSE [ok |-> TRUE, value |-> [title |-> body.title, content |-> body.content]]

\* Lines 24-35; body.title and body.content are strings, "" when absent.
validatePostInput(body) ==
    LET title == trim(body.title)
        content == trim(body.content)
    IN  IF title = <<>> THEN [ok |-> FALSE, error |-> "title is required."]
        ELSE IF content = <<>>
        THEN [ok |-> FALSE, error |-> "content is required."]
        ELSE [ok |-> TRUE, value |-> [title |-> title, content |-> content]]

\* .trim() without .toLowerCase()
normalizeEmailNoLower(emailIn) == trim(emailIn)

\* Lines 238 and 276: String(body.email || "").trim().toLowerCase()
normalizeEmail(emailIn) == toLowerCase(trim(emailIn))

\* Lines 84-89.
mapUser(row) ==
    [id |-> row.id, name |-> row.name, email |-> row.email,
     createdAt |-> row.createdAt]

\* Lines 91-93: base64url of "<id>:<email>:<Date.now()>".
createToken(user, now) ==
    Base64UrlEncode(ToStr(user.id) \o Colon \o user.email \o Colon \o ToStr(now))

\* A decoder that insists on all three segments.
parseTokenThreeParts(token) ==
    LET decoded == Base64UrlDecode(token)
        parts == split(decoded, Colon[1])
        id == Number(parts[1])
    IN  IF ~isInteger(id) \/ Len(parts) # 3 \/ parts[2] = <<>> THEN None
        ELSE Some([id |-> id, email |-> parts[2]])

\* Lines 95-107: null, or the id and email segments of the decoded text.
parseToken(token) ==
    LET decoded == Base64UrlDecode(token)
        parts == split(decoded, Colon[1])
        idRaw == parts[1]
        emailGiven == Len(parts) >= 2 /\ parts[2] # <<>>
        id == Number(idRaw)
    IN  IF ~isInteger(id) \/ ~emailGiven THEN None
        ELSE Some([id |-> id, email |-> parts[2]])

\* Lines 109-115; the header is "" when the request carries none.
readBearerToken(header) ==
    IF ~startsWith(header, Bearer) THEN None
    ELSE Some(trim(slice(header, Len(Bearer))))

(* --------------------------- posts handlers --------------------------- *)

\* GET /api/posts (lines 125-136)
ListPosts ==
    /\ proc = "running"
    /\ req' = [op |-> "listPosts"]
    /\ resp' = sendSuccess(OrderByIdDesc(posts), 200)
    /\ UNCHANGED <<clock, proc, bootVars, loopVars, postVars, userVars>>

\* GET /api/posts/:id (lines 138-160)
GetPost(idParam) ==
    LET id == parseId(idParam)
        post == SelectById(posts, id)
    IN  /\ proc = "running"
        /\ req' = [op |-> "getPost", id |-> idParam]
        /\ resp' = IF ~isInteger(id) THEN sendError("Invalid id.", 422)
                   ELSE IF post = {} THEN sendError("Post not found.", 404)
                   ELSE sendSuccess(CHOOSE r \in post : TRUE, 200)
        /\ UNCHANGED <<clock, proc, bootVars, loopVars, postVars, userVars>>

\* POST /api/posts (lines 162-184)
CreatePost(title, content) ==
    LET validation == validatePostInput([title |-> title, content |-> content])
        now == toISOString(clock)
        result == InsertPost([rows |-> posts, seq |-> postSeq],
                             validation.value.title, validation.value.content,
                             now)
        createdPost == CHOOSE r \in SelectById(result.rows, result.lastInsertRowid) : TRUE
    IN  /\ proc = "running"
        /\ validation.ok => NextRowid(postSeq, posts) <= MaxPostId
        /\ req' = [op |-> "createPost", title |-> title, content |-> content]
        /\ IF ~validation.ok
           THEN /\ resp' = sendError(validation.error, 422)
                /\ UNCHANGED postVars
           ELSE /\ posts' = result.rows
                /\ postSeq' = result.seq
                /\ resp' = sendSuccess(createdPost, 201)
                /\ assignedPostIds' = assignedPostIds \cup {result.lastInsertRowid}
                /\ created' = {c \in created : c.id # result.lastInsertRowid}
                              \cup {[id |-> result.lastInsertRowid,
                                     title |-> title, content |-> content,
                                     data |-> createdPost]}
                /\ UNCHANGED deletedIds
        /\ UNCHANGED <<clock, proc, bootVars, loopVars, userVars>>

\* A PUT that looks the post up before it validates the body.
UpdatePostExistenceFirst(idParam, title, content) ==
    LET id == parseId(idParam)
        validation == validatePostInput([title |-> title, content |-> content])
        now == toISOString(clock)
        result == UpdateRow(posts, id, validation.value.title,
                            validation.value.content, now)
        updatedPost == CHOOSE r \in SelectById(result.rows, id) : TRUE
    IN  /\ proc = "running"
        /\ req' = [op |-> "updatePost", id |-> idParam, title |-> title,
                   content |-> content]
        /\ IF ~isInteger(id)
           THEN /\ resp' = sendError("Invalid id.", 422)
                /\ UNCHANGED postVars
           ELSE IF SelectById(posts, id) = {}
           THEN /\ resp' = sendError("Post not found.", 404)
                /\ UNCHANGED postVars
           ELSE IF ~validation.ok
           THEN /\ resp' = sendError(validation.error, 422)
                /\ UNCHANGED postVars
           ELSE /\ resp' = sendSuccess(updatedPost, 200)
                /\ posts' = result.rows
                /\ created' = {c \in created : c.id # id}
                /\ UNCHANGED <<postSeq, assignedPostIds, deletedIds>>
        /\ UNCHANGED <<clock, proc, bootVars, loopVars, userVars>>

\* PUT /api/posts/:id (lines 186-217)
UpdatePost(idParam, title, content) ==
    LET id == parseId(idParam)
        validation == validatePostInput([title |-> title, content |-> content])
        now == toISOString(clock)
        result == UpdateRow(posts, id, validation.value.title,
                            validation.value.content, now)
        updatedPost == CHOOSE r \in SelectById(result.rows, id) : TRUE
    IN  /\ proc = "running"
        /\ req' = [op |-> "updatePost", id |-> idParam, title |-> title,
                   content |-> content]
        /\ IF ~isInteger(id)
           THEN /\ resp' = sendError("Invalid id.", 422)
                /\ UNCHANGED postVars
           ELSE IF ~validation.ok
           THEN /\ resp' = sendError(validation.error, 422)
                /\ UNCHANGED postVars
           ELSE IF result.changes = 0
           THEN /\ resp' = sendError("Post not found.", 404)
                /\ posts' = result.rows
                /\ UNCHANGED <<postSeq, assignedPostIds, deletedIds, created>>
           ELSE /\ resp' = sendSuccess(updatedPost, 200)
                /\ posts' = result.rows
                /\ created' = {c \in created : c.id # id}
                /\ UNCHANGED <<postSeq, assignedPostIds, deletedIds>>
        /\ UNCHANGED <<clock, proc, bootVars, loopVars, userVars>>

\* DELETE /api/posts/:id (lines 219-234)
DeletePost(idParam) ==
    LET id == parseId(idParam)
        result == DeleteRow(posts, id)
    IN  /\ proc = "running"
        /\ req' = [op |-> "deletePost", id |-> idParam]
        /\ IF ~isInteger(id)
           THEN /\ resp' = sendError("Invalid id.", 422)
                /\ UNCHANGED postVars
           ELSE IF result.changes = 0
           THEN /\ resp' = sendError("Post not found.", 404)
                /\ posts' = result.rows
                /\ UNCHANGED <<postSeq, assignedPostIds, deletedIds, created>>
           ELSE /\ resp' = sendSuccess([id |-> id], 200)
                /\ posts' = result.rows
                /\ deletedIds' = deletedIds \cup {id}
                /\ created' = {c \in created : c.id # id}
                /\ UNCHANGED <<postSeq, assignedPostIds>>
        /\ UNCHANGED <<clock, proc, bootVars, loopVars, userVars>>

(* ---------------------------- auth handlers --------------------------- *)

\* The history follows one issued token at a time: it keeps the one it has
\* or takes the new one.
Track(token, user) == {issued, {[token |-> token, user |-> mapUser(user)]}}

\* POST /api/auth/signup (lines 236-273)
Signup(nameIn, emailIn, passwordIn) ==
    LET name == trim(nameIn)
        email == normalizeEmail(emailIn)
        password == trim(passwordIn)
        exists == SelectByEmail(users, email)
        now == toISOString(clock)
        inserted == InsertUser([rows |-> users, seq |-> userSeq], name, email,
                               password, now)
        user == CHOOSE r \in SelectById(inserted.rows, inserted.lastInsertRowid) : TRUE
        token == createToken(user, clock)
    IN  /\ proc = "running"
        /\ req' = [op |-> "signup", name |-> nameIn, email |-> emailIn,
                   password |-> passwordIn]
        /\ IF name = <<>> \/ email = <<>> \/ password = <<>>
           THEN /\ resp' = sendError("name, email, password are required.", 422)
                /\ UNCHANGED userVars
           ELSE IF exists # {}
           THEN /\ resp' = sendError("This email is already registered.", 409)
                /\ UNCHANGED userVars
           ELSE IF inserted.threw
           THEN /\ resp' = sendError("UNIQUE constraint failed: users.email", 500)
                /\ UNCHANGED userVars
           ELSE /\ users' = inserted.rows
                /\ userSeq' = inserted.seq
                /\ assignedUserIds' = assignedUserIds \cup {inserted.lastInsertRowid}
                /\ resp' = sendSuccess([token |-> token, user |-> mapUser(user)], 201)
                /\ issued' \in Track(token, user)
        /\ UNCHANGED <<clock, proc, bootVars, loopVars, postVars>>

\* POST /api/auth/login (lines 275-299)
Login(emailIn, passwordIn) ==
    LET email == normalizeEmail(emailIn)
        password == trim(passwordIn)
        found == SelectByEmail(users, email)
        user == CHOOSE r \in found : TRUE
        token == createToken(user, clock)
    IN  /\ proc = "running"
        /\ req' = [op |-> "login", email |-> emailIn, password |-> passwordIn]
        /\ IF email = <<>> \/ password = <<>>
           THEN /\ resp' = sendError("email and password are required.", 422)
                /\ UNCHANGED issued
           ELSE IF found = {} \/ user.password # password
           THEN /\ resp' = sendError("Invalid email or password.", 401)
                /\ UNCHANGED issued
           ELSE /\ resp' = sendSuccess([token |-> token, user |-> mapUser(user)], 200)
                /\ issued' \in Track(token, user)
        /\ UNCHANGED <<clock, proc, bootVars, loopVars, postVars, users, userSeq, assignedUserIds>>

\* GET /api/auth/me (lines 301-325)
Me(header) ==
    LET token == readBearerToken(header)
        claims == parseToken(token.value)
        found == SelectByIdAndEmail(users, claims.value.id, claims.value.email)
    IN  /\ proc = "running"
        /\ req' = [op |-> "me", header |-> header]
        /\ resp' = IF ~token.some \/ token.value = <<>>
                   THEN sendError("Bearer token is required.", 401)
                   ELSE IF ~claims.some THEN sendError("Invalid token.", 401)
                   ELSE IF found = {} THEN sendError("Invalid token.", 401)
                   ELSE sendSuccess([user |-> mapUser(CHOOSE r \in found : TRUE)], 200)
        /\ UNCHANGED <<clock, proc, bootVars, loopVars, postVars, userVars>>

(* ----------------------------- startServer ---------------------------- *)

\* process.env.PORT: unset, "", "5000", "0" and "80".
EnvPortInputs ==
    {None, Some(<<>>), Some(<<53, 48, 48, 48>>), Some(<<48>>), Some(<<56, 48>>)}

\* The ports other processes hold: the first k ports from the default one
\* on, with or without 5000; 4001 alone; 4000 and 4002.
InUseInputs ==
    {(DefaultPort..(DefaultPort + k - 1)) \cup extra :
        k \in 0..(DefaultRetries + 2), extra \in {{}, {5000}}}
    \cup {{DefaultPort + 1}, {DefaultPort, DefaultPort + 2}}

\* The error app.listen reports for a port: EADDRINUSE when another process
\* holds it, EACCES for a privileged port, none otherwise.
ListenError(p) ==
    IF p \in inUse THEN "EADDRINUSE"
    ELSE IF p < 1024 THEN "EACCES"
    ELSE "none"

\* A retry condition that does not look at process.env.PORT.
ShouldRetryIgnoresEnv(code, retries, env) == code = "EADDRINUSE" /\ retries > 0

\* Line 365: error.code === "EADDRINUSE" && retriesLeft > 0 && !process.env.PORT
\* (the empty string is falsy, as is the unset variable).
ShouldRetry(code, retries, env) ==
    /\ code = "EADDRINUSE"
    /\ retries > 0
    /\ ~(env.some /\ env.value # <<>>)

\* The module body has run and the server is about to be started: the
\* environment is any of the inputs.
BootInit ==
    LET p == BootstrapPosts([rows |-> {}, seq |-> 0], toISOString(0))
        u == BootstrapUsers([rows |-> {}, seq |-> 0], toISOString(0))
    IN  /\ posts = p.rows
        /\ postSeq = p.seq
        /\ users = u.rows
        /\ userSeq = u.seq
        /\ clock = 0
        /\ proc = "starting"
        /\ req = NoRequest
        /\ resp = NoResponse
        /\ assignedPostIds = Ids(p.rows)
        /\ assignedUserIds = Ids(u.rows)
        /\ deletedIds = {}
        /\ created = {}
        /\ issued = {}
        /\ envPort \in EnvPortInputs
        /\ inUse \in InUseInputs
        /\ port = PORT(envPort)
        /\ retriesLeft = DefaultRetries
        /\ attempts = <<>>
        /\ exitCode = None
        /\ inflight = [i \in 1..MaxInflight |-> Absent]
        /\ running = 0

\* Lines 381-383 and 359: startServer(PORT) calls app.listen(port).
StartServer ==
    /\ proc = "starting"
    /\ proc' = "binding"
    /\ attempts' = Append(attempts, port)
    /\ UNCHANGED <<clock, req, resp, postVars, userVars, loopVars,
                   envPort, inUse, port, retriesLeft, exitCode>>

\* Lines 359-362: the listening callback.
Listening ==
    /\ proc = "binding"
    /\ ListenError(port) = "none"
    /\ proc' = "running"
    /\ UNCHANGED <<clock, req, resp, postVars, userVars, loopVars, bootVars>>

\* Lines 364-378: the error handler: a retry on the next port (startServer
\* calls app.listen again), exit code 1, or the error thrown again, which
\* ends the process as an uncaught exception (exit code 1).
OnError ==
    LET code == ListenError(port)
    IN  /\ proc = "binding"
        /\ code # "none"
        /\ IF ShouldRetry(code, retriesLeft, envPort)
           THEN /\ port' = port + 1
                /\ retriesLeft' = retriesLeft - 1
                /\ attempts' = Append(attempts, port + 1)
                /\ UNCHANGED <<proc, exitCode>>
           ELSE IF code = "EADDRINUSE"
           THEN /\ proc' = "exited"
                /\ exitCode' = Some(1)
                /\ UNCHANGED <<port, retriesLeft, attempts>>
           ELSE /\ proc' = "crashed"
                /\ exitCode' = Some(1)
                /\ UNCHANGED <<port, retriesLeft, attempts>>
        /\ UNCHANGED <<clock, req, resp, postVars, userVars, loopVars,
                       envPort, inUse>>

(* ------------------------- concurrent requests ------------------------ *)

\* The handlers call DatabaseSync's run and get, which return their result
\* to the caller; no statement of a handler is awaited, so a handler that
\* has started keeps the thread after each statement until it responds.
\* Suspends(pc) tells whether the handler gives the thread back after the
\* statement that leaves it at pc.
SuspendsAfterSelect(pc) == pc = "checked"

Suspends(pc) == FALSE

\* The event loop may run a step of the request in slot i.
MayRun(i) == running = 0 \/ running = i

\* The thread after a step that leaves the request in slot i at pc.
Holder(i, pc) == IF Suspends(pc) THEN 0 ELSE i

\* A request arrives and its JSON body is parsed; its handler is yet to run.
\* (midHandler is history: the requests whose handler had started and not
\* responded when this one arrived.)
Arrive(i, op, body) ==
    /\ proc = "running"
    /\ inflight[i].pc = "absent"
    /\ inflight' = [inflight EXCEPT ![i] =
                        [pc |-> "arrived", op |-> op, body |-> body,
                         midHandler |-> {j \in DOMAIN inflight :
                                           inflight[j].pc \in {"checked", "inserted"}}]]
    /\ UNCHANGED <<clock, proc, bootVars, running, postVars, userVars, req, resp>>

\* The request in slot i is answered with r.
Respond(i, r) ==
    /\ inflight' = [inflight EXCEPT ![i] = [pc |-> "done", resp |-> r] @@ inflight[i]]
    /\ running' = 0
    /\ req' = [op |-> inflight[i].op, slot |-> i]
    /\ resp' = r

\* Signup, lines 237-249: the fields are read and checked, the email is
\* looked up.
SignupCheck(i) ==
    LET body == inflight[i].body
        name == trim(body.name)
        email == normalizeEmail(body.email)
        password == trim(body.password)
        exists == SelectByEmail(users, email)
    IN  /\ inflight[i].pc = "arrived"
        /\ inflight[i].op = "signup"
        /\ MayRun(i)
        /\ IF name = <<>> \/ email = <<>> \/ password = <<>>
           THEN Respond(i, sendError("name, email, password are required.", 422))
           ELSE IF exists # {}
           THEN Respond(i, sendError("This email is already registered.", 409))
           ELSE /\ inflight' = [inflight EXCEPT ![i].pc = "checked"]
                /\ running' = Holder(i, "checked")
                /\ UNCHANGED <<req, resp>>
        /\ UNCHANGED <<clock, proc, bootVars, postVars, userVars>>

\* Signup, lines 251-256 and 270-271: the INSERT, and the catch when it
\* throws.
SignupInsert(i) ==
    LET body == inflight[i].body
        inserted == InsertUser([rows |-> users, seq |-> userSeq], trim(body.name),
                               normalizeEmail(body.email), trim(body.password),
                               toISOString(clock))
    IN  /\ inflight[i].pc = "checked"
        /\ inflight[i].op = "signup"
        /\ MayRun(i)
        /\ IF inserted.threw
           THEN /\ Respond(i, sendError("UNIQUE constraint failed: users.email", 500))
                /\ UNCHANGED <<users, userSeq, assignedUserIds>>
           ELSE /\ users' = inserted.rows
                /\ userSeq' = inserted.seq
                /\ assignedUserIds' = assignedUserIds \cup {inserted.lastInsertRowid}
                /\ inflight' = [inflight EXCEPT ![i] =
                                    [pc |-> "inserted",
                                     lastInsertRowid |-> inserted.lastInsertRowid]
                                    @@ inflight[i]]
                /\ running' = Holder(i, "inserted")
                /\ UNCHANGED <<req, resp>>
        /\ UNCHANGED <<clock, proc, bootVars, postVars, issued>>

\* Signup, lines 258-269: the row is read back and returned with its token.
SignupRespond(i) ==
    LET user == CHOOSE r \in SelectById(users, inflight[i].lastInsertRowid) : TRUE
    IN  /\ inflight[i].pc = "inserted"
        /\ inflight[i].op = "signup"
        /\ MayRun(i)
        /\ Respond(i, sendSuccess([token |-> createToken(user, clock),
                                   user |-> mapUser(user)], 201))
        /\ UNCHANGED <<clock, proc, bootVars, postVars, userVars>>

\* Create post, lines 163-166: the body is validated.
CreateCheck(i) ==
    LET validation == validatePostInput(inflight[i].body)
    IN  /\ inflight[i].pc = "arrived"
        /\ inflight[i].op = "createPost"
        /\ MayRun(i)
        /\ IF ~validation.ok
           THEN Respond(i, sendError(validation.error, 422))
           ELSE /\ inflight' = [inflight EXCEPT ![i].pc = "checked"]
                /\ running' = Holder(i, "checked")
                /\ UNCHANGED <<req, resp>>
        /\ UNCHANGED <<clock, proc, bootVars, postVars, userVars>>

\* Create post, lines 169-172: the INSERT.
CreateInsert(i) ==
    LET validation == validatePostInput(inflight[i].body)
        result == InsertPost([rows |-> posts, seq |-> postSeq],
                             validation.value.title, validation.value.content,
                             toISOString(clock))
    IN  /\ inflight[i].pc = "checked"
        /\ inflight[i].op = "createPost"
        /\ MayRun(i)
        /\ posts' = result.rows
        /\ postSeq' = result.seq
        /\ assignedPostIds' = assignedPostIds \cup {result.lastInsertRowid}
        /\ inflight' = [inflight EXCEPT ![i] =
                            [pc |-> "inserted",
                             lastInsertRowid |-> result.lastInsertRowid]
                            @@ inflight[i]]
        /\ running' = Holder(i, "inserted")
        /\ UNCHANGED <<clock, proc, bootVars, userVars, deletedIds, created, req, resp>>

\* Create post, lines 174-180: the row is read back and returned.
CreateRespond(i) ==
    LET createdPost == CHOOSE r \in SelectById(posts, inflight[i].lastInsertRowid) : TRUE
    IN  /\ inflight[i].pc = "inserted"
        /\ inflight[i].op = "createPost"
        /\ MayRun(i)
        /\ Respond(i, sendSuccess(createdPost, 201))
        /\ UNCHANGED <<clock, proc, bootVars, postVars, userVars>>

(* -------------------------- utility handlers -------------------------- *)

\* GET /api/greeting (lines 327-333)
Greeting(nameIn) ==
    LET trimmed == trim(nameIn)
        name == IF trimmed = <<>> THEN Guest ELSE trimmed
    IN  /\ proc = "running"
        /\ req' = [op |-> "greeting", name |-> nameIn]
        /\ resp' = sendSuccess([message |-> Hello(name),
                                createdAt |-> toISOString(clock)], 200)
        /\ UNCHANGED <<clock, proc, bootVars, loopVars, postVars, userVars>>

\* POST /api/sum (lines 335-348)
Sum(aIn, bIn) ==
    LET a == ToNumber(aIn)
        b == ToNumber(bIn)
    IN  /\ proc = "running"
        /\ req' = [op |-> "sum", a |-> aIn, b |-> bIn]
        /\ resp' = IF ~isFinite(a) \/ ~isFinite(b)
                   THEN sendError("a and b must be numbers.", 422)
                   ELSE sendSuccess([a |-> a, b |-> b, result |-> a + b], 200)
        /\ UNCHANGED <<clock, proc, bootVars, loopVars, postVars, userVars>>

\* GET /api/fail (lines 350-352)
Fail ==
    /\ proc = "running"
    /\ req' = [op |-> "fail"]
    /\ resp' = sendError("This endpoint always fails for demo.", 500)
    /\ UNCHANGED <<clock, proc, bootVars, loopVars, postVars, userVars>>

(* --------------------------- request inputs --------------------------- *)

Prefixes(s) == {SubSeq(s, 1, k) : k \in 0..Len(s)}
ProperPrefixes(s) == {SubSeq(s, 1, k) : k \in 0..(Len(s) - 1)}

\* A token with a character outside base64url ('!') put in front or after
\* its fourth character, or with '=' put there.
Garbled(t) ==
    {<<33>> \o t,
     SubSeq(t, 1, 4) \o <<33>> \o SubSeq(t, 5, Len(t)),
     SubSeq(t, 1, 4) \o <<61>> \o SubSeq(t, 5, Len(t))}

\* Tokens nobody issued: the texts ":a", "1", "0:a", " 1:<seed email>" and
\* "!!" (no base64url character at all), and a text of one byte above ASCII.
ForgedTokens ==
    {Base64UrlEncode(Colon \o <<97>>),
     Base64UrlEncode(<<49>>),
     Base64UrlEncode(<<48>> \o Colon \o <<97>>),
     Base64UrlEncode(<<32, 49>> \o Colon \o SeedUser.email),
     <<33, 33>>,
     <<95, 95>>}

\* The tokens the tracked history gives rise to, whole, cut or garbled.
IssuedTokens == {i.token : i \in issued}

TokenInputs ==
    UNION {Prefixes(t) \cup Garbled(t) : t \in IssuedTokens} \cup ForgedTokens

\* The Authorization header: absent, "Bearer <token>", "bearer <token>" and
\* "Bearer  <token> " (extra blanks around the token).
HeaderInputs ==
    {<<>>}
    \cup {Bearer \o t : t \in TokenInputs}
    \cup {toLowerCase(Bearer) \o t : t \in IssuedTokens}
    \cup {Bearer \o <<32>> \o t \o <<32>> : t \in IssuedTokens}

(* --------------------------- specifications --------------------------- *)

PostsNext ==
    \/ Tick
    \/ Restart
    \/ ListPosts
    \/ \E idParam \in EditIdInputs : GetPost(idParam)
    \/ \E body \in BodyInputs : CreatePost(body.title, body.content)
    \/ \E idParam \in EditIdInputs, body \in BodyInputs :
          UpdatePost(idParam, body.title, body.content)
    \/ \E idParam \in IdInputs : DeletePost(idParam)

AuthNext ==
    \/ Tick
    \/ Restart
    \/ \E body \in SignupInputs : Signup(body.name, body.email, body.password)
    \/ \E body \in LoginInputs : Login(body.email, body.password)
    \/ \E header \in HeaderInputs : Me(header)

\* The utility handlers alone.
UtilNext ==
    \/ Tick
    \/ Restart
    \/ \E nameIn \in GreetingInputs : Greeting(nameIn)
    \/ \E aIn \in SumInputs, bIn \in SumInputs : Sum(aIn, bIn)
    \/ Fail

UtilSpec == Init /\ [][UtilNext]_vars

Next == PostsNext \/ AuthNext \/ UtilNext

Spec == Init /\ [][Next]_vars

\* Requests that assign or free ids, and restarts.
IdNext ==
    \/ Tick
    \/ Restart
    \/ \E body \in BodyInputs : CreatePost(body.title, body.content)
    \/ \E idParam \in IdInputs : DeletePost(idParam)
    \/ \E body \in SignupInputs :
          /\ Signup(body.name, body.email, body.password)
          /\ issued' = issued      \* no token is followed here

IdSpec == Init /\ [][IdNext]_vars

\* Every handler side by side within one millisecond, no token followed:
\* posts "1", "4", "abc" and "99999", every signup and login body, the
\* headers nobody was issued, and the utility requests.
FrameNext ==
    \/ Restart
    \/ ListPosts
    \/ \E idParam \in EditIdInputs : GetPost(idParam)
    \/ \E body \in BodyInputs : CreatePost(body.title, body.content)
    \/ \E idParam \in EditIdInputs, body \in BodyInputs :
          UpdatePost(idParam, body.title, body.content)
    \/ \E idParam \in EditIdInputs : DeletePost(idParam)
    \/ \E body \in SignupInputs :
          /\ Signup(body.name, body.email, body.password)
          /\ issued' = issued
    \/ \E body \in LoginInputs :
          /\ Login(body.email, body.password)
          /\ issued' = issued
    \/ \E header \in HeaderInputs : Me(header)
    \/ \E nameIn \in GreetingInputs : Greeting(nameIn)
    \/ \E aIn \in SumInputs : Sum(aIn, [type |-> "number", value |-> 3])
    \/ Fail

FrameSpec == Init /\ [][FrameNext]_vars

\* Signup and create-post requests held by the event loop at the same time,
\* their handlers run statement by statement.
LoopNext ==
    \/ \E i \in 1..MaxInflight, body \in SignupInputs : Arrive(i, "signup", body)
    \/ \E i \in 1..MaxInflight, body \in BodyInputs : Arrive(i, "createPost", body)
    \/ \E i \in 1..MaxInflight : SignupCheck(i)
    \/ \E i \in 1..MaxInflight : SignupInsert(i)
    \/ \E i \in 1..MaxInflight : SignupRespond(i)
    \/ \E i \in 1..MaxInflight : CreateCheck(i)
    \/ \E i \in 1..MaxInflight : CreateInsert(i)
    \/ \E i \in 1..MaxInflight : CreateRespond(i)

LoopSpec == Init /\ [][LoopNext]_vars

\* Starts on the database files a first start can find, the deletes that
\* empty table posts and a signup.
SeedNext ==
    \/ Tick
    \/ Restart
    \/ \E idParam \in IdInputs : DeletePost(idParam)
    \/ /\ Signup(<<78>>, <<97>>, <<112>>)
       /\ issued' = issued

SeedSpec == SeedInit /\ [][SeedNext]_vars

\* The start of the server, in every environment of the inputs.
BootNext ==
    \/ StartServer
    \/ Listening
    \/ OnError

BootSpec == BootInit /\ [][BootNext]_vars

\* The posts handlers alone (the users table stays as seeded).
PostsSpec == Init /\ [][PostsNext]_vars

\* The auth handlers alone (the posts table stays as seeded).
AuthSpec == Init /\ [][AuthNext]_vars

(* ------------------------------ claims -------------------------------- *)

RowOf(rows, id) == CHOOSE r \in rows : r.id = id

\* C1: a DELETE of a post id that exists answers 200 with {id} and removes
\* exactly that row; a DELETE of an id that an earlier DELETE removed answers
\* 404 and leaves the posts table as it was, whatever happened in between.
C1_DeleteOnceThenNotFound ==
    [][ (req'.op = "deletePost" /\ isInteger(parseId(req'.id))) =>
          LET id == parseId(req'.id)
          IN  /\ id \in Ids(posts) =>
                    /\ resp'.status = 200
                    /\ resp'.data = [id |-> id]
                    /\ posts' = posts \ {RowOf(posts, id)}
                    /\ Cardinality(posts') = Cardinality(posts) - 1
              /\ id \in deletedIds =>
                    /\ resp'.status = 404
                    /\ posts' = posts ]_vars

\* C1 witness: a second DELETE of an id was answered 404 while a post that
\* was created in between is stored.
C1_Witness ==
    /\ req.op = "deletePost"
    /\ resp.status = 404
    /\ parseId(req.id) \in deletedIds
    /\ \E c \in created : c.id > parseId(req.id)

\* C2: after a signup, login with the stored email and password answers 200
\* with a token, /me with an issued token answers 200 with the user it was
\* issued to in every later state, and login with a password that differs
\* (it is not empty and not equal after the trimming both handlers apply)
\* answers 401 without a token.
C2_IssuedTokenAccepted ==
    /\ req.op = "login" =>
          \A u \in users :
              u.email = req.email =>
                  IF u.password = trim(req.password)
                  THEN resp.status = 200 /\ resp.data.user = mapUser(u)
                  ELSE trim(req.password) # <<>> =>
                           resp.status = 401 /\ ~resp.success
    /\ \A i \in issued :
          (req.op = "me" /\ req.header = Bearer \o i.token) =>
              resp.status = 200 /\ resp.data.user = i.user

\* The text a token decodes to names user u: its first segment is the id
\* as a number and its second segment is the email.
DecodesTo(token, u) ==
    LET parts == split(Base64UrlDecode(token), 58)
    IN  Len(parts) >= 2 /\ Number(parts[1]) = u.id /\ parts[2] = u.email

\* Tokens made from an issued one by cutting it short or by putting in a
\* character outside base64url or a '=', and "!!".
TamperedTokens ==
    UNION {ProperPrefixes(t) \cup Garbled(t) : t \in IssuedTokens}
    \cup {<<33, 33>>}

\* The cut token x of issued token t still holds the whole "<id>:<email>"
\* of a stored user whose email has no ':'.
KeepsIdAndEmail(x, t) ==
    \E u \in users :
        LET want == ToStr(u.id) \o Colon \o u.email
        IN  /\ IndexOf(u.email, 58) = 0
            /\ startsWith(Base64UrlDecode(t), want \o Colon)
            /\ Len(Base64UrlDecode(x)) >= Len(want)

\* C3 as stated: /me with a tampered or malformed token, a proper prefix of
\* an issued token in particular, always answers 401.
C3_TamperedAlways401 ==
    (req.op = "me" /\ \E x \in TamperedTokens : req.header = Bearer \o x) =>
        resp.status = 401

\* C3 amended: /me with a tampered or malformed token answers 401 or 200,
\* never 500; it answers 200 exactly when the token still decodes to the id
\* and email of a stored user, which for a proper prefix of an issued token
\* is exactly when the cut leaves the whole "<id>:<email>" in place.
C3_TamperedRejectedUnlessStillDecodes ==
    \A x \in TamperedTokens :
        (req.op = "me" /\ req.header = Bearer \o x) =>
            /\ resp.status \in {200, 401}
            /\ resp.status = 200 <=> \E u \in users : DecodesTo(x, u)
            /\ \A t \in IssuedTokens :
                  x \in ProperPrefixes(t) =>
                      (resp.status = 200 <=> KeepsIdAndEmail(x, t))

\* C3 witness: /me accepted a proper prefix of an issued token.
C3_Witness ==
    /\ req.op = "me"
    /\ resp.status = 200
    /\ \E t \in IssuedTokens : \E x \in ProperPrefixes(t) : req.header = Bearer \o x

\* C4 as stated: a signup whose trimmed, lowercased email is that of a stored
\* user always answers 409 and leaves the users table unchanged.
C4_DuplicateAlways409 ==
    [][ (req'.op = "signup"
         /\ \E u \in users : u.email = toLowerCase(trim(req'.email))) =>
            resp'.status = 409 /\ users' = users ]_vars

\* C4 amended: such a signup leaves the users table unchanged and answers
\* 409 when the name and the password are non-empty after trimming, 422 when
\* one of them is empty.
C4_DuplicateRejected ==
    [][ (req'.op = "signup"
         /\ \E u \in users : u.email = toLowerCase(trim(req'.email))) =>
            /\ users' = users
            /\ userSeq' = userSeq
            /\ resp'.status =
                 IF trim(req'.name) = <<>> \/ trim(req'.password) = <<>>
                 THEN 422 ELSE 409 ]_vars

\* C4 witness: a signup was answered 409 for an email that is stored in
\* another letter case.
C4_Witness ==
    /\ req.op = "signup"
    /\ resp.status = 409
    /\ req.email # toLowerCase(trim(req.email))
    /\ \E u \in users : u.email = toLowerCase(trim(req.email))

\* C5: an id given to a new post or user is greater than every id given
\* before in that table, so the id of a deleted row is never given again.
C5_IdsNeverReused ==
    [][ /\ \A id \in Ids(posts') \ Ids(posts) :
              /\ \A old \in assignedPostIds : id > old
              /\ id \notin deletedIds
        /\ \A id \in Ids(users') \ Ids(users) :
              \A old \in assignedUserIds : id > old ]_vars

\* C5 witness: a post was created right after the post with the largest id
\* was deleted.
C5_Witness ==
    /\ req.op = "createPost"
    /\ resp.status = 201
    /\ (resp.data.id - 1) \in deletedIds

\* C6 as stated: a successful PUT keeps createdAt and makes updatedAt
\* strictly greater than it was.
C6_UpdatedAtStrictlyForward ==
    [][ (req'.op = "updatePost" /\ resp'.status = 200) =>
          LET id == parseId(req'.id)
          IN  /\ RowOf(posts', id).createdAt = RowOf(posts, id).createdAt
              /\ StrLess(RowOf(posts, id).updatedAt,
                         RowOf(posts', id).updatedAt) ]_vars

\* C6 amended: a successful PUT keeps createdAt and sets updatedAt to the
\* clock's reading at the request, which is not before the old updatedAt and
\* is equal to it when the clock has not moved on since.
C6_UpdatedAtIsNow ==
    [][ (req'.op = "updatePost" /\ resp'.status = 200) =>
          LET id == parseId(req'.id)
              old == RowOf(posts, id)
              new == RowOf(posts', id)
          IN  /\ new.createdAt = old.createdAt
              /\ new.updatedAt = toISOString(clock)
              /\ ~StrLess(new.updatedAt, old.updatedAt)
              /\ resp'.data = new ]_vars

\* C6 witness: a PUT succeeded on a post after the clock moved on.
C6_Witness ==
    /\ req.op = "updatePost"
    /\ resp.status = 200
    /\ StrLess(resp.data.createdAt, resp.data.updatedAt)

\* The header carries a token that decodes to the id and email of a row.
HeaderAccepted(header, rows) ==
    LET token == readBearerToken(header)
        claims == parseToken(token.value)
    IN  /\ token.some
        /\ token.value # <<>>
        /\ claims.some
        /\ \E u \in rows : u.id = claims.value.id /\ u.email = claims.value.email

\* C7: /me answers 200 exactly when the bearer token decodes to the id and
\* the email of one stored user, and 401 otherwise; a token that is accepted
\* stays accepted in every later state.
C7_MeIffTokenMatchesUser ==
    [][ /\ req'.op = "me" =>
              /\ resp'.status =
                   IF HeaderAccepted(req'.header, users') THEN 200 ELSE 401
              /\ resp'.status = 200 =>
                    \E u \in users' :
                        /\ resp'.data.user = mapUser(u)
                        /\ DecodesTo(readBearerToken(req'.header).value, u)
        /\ users' # users =>
              \A t \in IssuedTokens \cup ForgedTokens :
                  HeaderAccepted(Bearer \o t, users) =>
                      HeaderAccepted(Bearer \o t, users') ]_vars

\* C7 witness: /me accepted an issued token after a later signup.
C7_Witness ==
    /\ req.op = "me"
    /\ resp.status = 200
    /\ \E i \in issued :
          /\ req.header = Bearer \o i.token
          /\ \E u \in users : u.id > i.user.id

\* C8: GET of a post that POST created and nothing has updated or deleted
\* since returns the title and content of the create response, which are the
\* submitted values trimmed, with createdAt equal to updatedAt.
C8_CreateThenGet ==
    \A c \in created :
        (req.op = "getPost" /\ parseId(req.id) = c.id) =>
            /\ resp.status = 200
            /\ resp.data = c.data
            /\ resp.data.title = trim(c.title)
            /\ resp.data.content = trim(c.content)
            /\ resp.data.createdAt = resp.data.updatedAt

\* C8 witness: such a GET was answered, for a title that needed trimming.
C8_Witness ==
    /\ req.op = "getPost"
    /\ resp.status = 200
    /\ \E c \in created : c.id = parseId(req.id) /\ c.title # resp.data.title

\* C9: GET /api/posts returns every stored post once, and nothing else, in
\* strictly descending order of id.
C9_ListAllDescending ==
    req.op = "listPosts" =>
        /\ resp.status = 200
        /\ Len(resp.data) = Cardinality(posts)
        /\ {resp.data[i] : i \in 1..Len(resp.data)} = posts
        /\ \A i \in 1..Len(resp.data) : \A j \in 1..Len(resp.data) :
              i < j => resp.data[i].id > resp.data[j].id

\* C9 witness: a list of several posts after a delete and a create.
C9_Witness ==
    /\ req.op = "listPosts"
    /\ Len(resp.data) >= 3
    /\ deletedIds # {}
    /\ created # {}

UniqueNormalEmails(rows) ==
    /\ \A u \in rows : \A v \in rows : u.email = v.email => u = v
    /\ \A u \in rows : u.email = toLowerCase(trim(u.email))

\* C10: no two user rows have the same email and every stored email is its
\* own lowercase, trimmed form; a signup with an email that is stored already
\* ends in an error response, adds no row and leaves the process running.
C10_UniqueLowercaseEmails ==
    [][ /\ UniqueNormalEmails(users)
        /\ UniqueNormalEmails(users')
        /\ (req'.op = "signup"
            /\ \E u \in users : u.email = toLowerCase(trim(req'.email))) =>
               /\ ~resp'.success
               /\ resp'.status \in {409, 422, 500}
               /\ users' = users
               /\ proc' = "running" ]_vars

\* C10 witness: a signup with a stored email was turned down with 409 while
\* the table holds a row that a signup added.
C10_Witness ==
    /\ req.op = "signup"
    /\ resp.status = 409
    /\ Cardinality(users) >= 2

\* C11 as stated: GET, PUT and DELETE on /api/posts/:id answer 422 when the
\* id is not an integer and 404 when it is an integer no post has; in both
\* cases the posts table is unchanged.
C11_BadIdAlways422Or404 ==
    [][ req'.op \in {"getPost", "updatePost", "deletePost"} =>
          LET id == Number(req'.id)
          IN  /\ ~isInteger(id) => resp'.status = 422 /\ posts' = posts
              /\ (isInteger(id) /\ id \notin Ids(posts)) =>
                     resp'.status = 404 /\ posts' = posts ]_vars

\* C11 amended: the same, except that a PUT whose title or content is empty
\* after trimming answers 422 also when the id is an integer no post has.
C11_BadIdRejected ==
    [][ req'.op \in {"getPost", "updatePost", "deletePost"} =>
          LET id == Number(req'.id)
              bodyBad == /\ req'.op = "updatePost"
                         /\ (trim(req'.title) = <<>> \/ trim(req'.content) = <<>>)
          IN  /\ ~isInteger(id) =>
                     /\ resp'.status = 422
                     /\ ~resp'.success
                     /\ posts' = posts /\ postSeq' = postSeq
              /\ (isInteger(id) /\ id \notin Ids(posts)) =>
                     /\ resp'.status = IF bodyBad THEN 422 ELSE 404
                     /\ ~resp'.success
                     /\ posts' = posts /\ postSeq' = postSeq ]_vars

\* C11 witness: a PUT with a valid body for "99999" was answered 404 after a
\* DELETE for "abc" had been turned down (the table still holds the seed
\* posts and a created one).
C11_Witness ==
    /\ req.op = "updatePost"
    /\ req.id = <<57, 57, 57, 57, 57>>
    /\ resp.status = 404
    /\ Cardinality(posts) >= 4

\* C12: a step never removes a user row or changes a field of one; the users
\* table changes only by a signup answered 201, which adds one row; login,
\* /me and every posts, greeting, sum and fail request leave the users table
\* as it was, and every auth request leaves the posts table as it was.
C12_UsersOnlyGrowBySignup ==
    [][ /\ users \subseteq users'
        /\ users' # users =>
              /\ req'.op = "signup"
              /\ resp'.status = 201
              /\ Cardinality(users') = Cardinality(users) + 1
              /\ \E u \in users' \ users : resp'.data.user = mapUser(u)
        /\ req'.op \in {"login", "me", "listPosts", "getPost", "createPost",
                        "updatePost", "deletePost", "greeting", "sum", "fail"} =>
              users' = users /\ userSeq' = userSeq
        /\ req'.op \in {"signup", "login", "me"} =>
              posts' = posts /\ postSeq' = postSeq ]_vars

\* C12 witness: a login was answered 200 for a user a signup added, after
\* posts were created and deleted.
C12_Witness ==
    /\ req.op = "login"
    /\ resp.status = 200
    /\ resp.data.user.id >= 2
    /\ Cardinality(users) >= 3
    /\ deletedIds # {}
    /\ created # {}

\* The JSON value is a number within the double range.
IsFiniteNumber(v) == v.type = "number" /\ v.value \notin {NaN, Infinity}

\* C13 as stated: POST /api/sum answers 200 with {a, b, result: a + b} when
\* a and b are finite numbers, and 422 when either is not a finite number:
\* missing, null, a string ("x", ""), a boolean.
C13_NonNumberAlways422 ==
    req.op = "sum" =>
        IF IsFiniteNumber(req.a) /\ IsFiniteNumber(req.b)
        THEN /\ resp.status = 200
             /\ resp.data = [a |-> req.a.value, b |-> req.b.value,
                             result |-> req.a.value + req.b.value]
        ELSE resp.status = 422

\* What an input counts as: null and a string that is empty or blank count
\* as 0, true as 1, false as 0, a string of digits (blanks around it
\* allowed) as its value, a number as itself; a missing input, any other
\* string and an object count as no number.
CountsAs(v) ==
    IF v.type = "null" THEN 0
    ELSE IF v.type = "boolean" THEN (IF v.value THEN 1 ELSE 0)
    ELSE IF v.type = "number" THEN v.value
    ELSE IF v.type = "string" /\ trim(v.value) = <<>> THEN 0
    ELSE IF v.type = "string"
            /\ \A i \in 1..Len(trim(v.value)) : trim(v.value)[i] \in 48..57
    THEN DigitsValue(trim(v.value))
    ELSE NaN

\* C13 amended: POST /api/sum answers 200 with {a, b, result: a + b}, a and
\* b being what the inputs count as, when both count as finite numbers, and
\* 422 otherwise; 2 and 3 give 5, a missing input and "x" give 422, while
\* null, "" and false are taken as 0 and true as 1.
C13_SumOfCoerced ==
    req.op = "sum" =>
        LET a == CountsAs(req.a)
            b == CountsAs(req.b)
        IN  /\ IF a \notin {NaN, Infinity} /\ b \notin {NaN, Infinity}
               THEN /\ resp.status = 200
                    /\ resp.success
                    /\ resp.data = [a |-> a, b |-> b, result |-> a + b]
               ELSE resp.status = 422 /\ ~resp.success
            /\ (req.a = [type |-> "number", value |-> 2]
                /\ req.b = [type |-> "number", value |-> 3]) =>
                   resp.data.result = 5
            /\ (req.a.type = "undefined" \/ req.a = [type |-> "string", value |-> <<120>>]) =>
                   resp.status = 422

\* C13 witness: null plus " 5 " was answered 200 with result 5.
C13_Witness ==
    /\ req.op = "sum"
    /\ req.a.type = "null"
    /\ req.b = [type |-> "string", value |-> <<32, 53, 32>>]
    /\ resp.status = 200
    /\ resp.data.result = 5

\* C14: for every user row signup has stored (and the seed row), decoding
\* the token encoded for it gives exactly the row's id and email.
C14_TokenRoundTrip ==
    \A u \in users :
        parseToken(createToken(u, clock)) = Some([id |-> u.id, email |-> u.email])

\* The segment is a decimal integer (blanks around it allowed); the empty
\* and the blank segment are not.
IntegerSegment(s) ==
    /\ trim(s) # <<>>
    /\ \A i \in 1..Len(trim(s)) : trim(s)[i] \in 48..57

\* C15: for the token of every /me request, parseToken gives null when the
\* id segment of the decoded text is not an integer (the empty segment
\* included) or the email segment is missing or empty, and gives the id and
\* the email when the id segment is an integer and the email is not empty.
C15_ParseTokenNullOnBadSegments ==
    (req.op = "me" /\ readBearerToken(req.header).some) =>
        LET token == readBearerToken(req.header).value
            parts == split(Base64UrlDecode(token), 58)
            idOk == IntegerSegment(parts[1])
            emailOk == Len(parts) >= 2 /\ parts[2] # <<>>
        IN  IF idOk /\ emailOk
            THEN parseToken(token) =
                     Some([id |-> DigitsValue(trim(parts[1])), email |-> parts[2]])
            ELSE parseToken(token) = None

\* C16: PUT /api/posts/:id checks the id, then the body, then existence: a
\* non-integer id gives 422 "Invalid id."; otherwise a title or content that
\* is empty after trimming gives 422 whether or not the post exists;
\* otherwise a missing post gives 404.  No error outcome changes a row, and
\* a successful update changes only title, content and updatedAt of the
\* addressed row: its id, its createdAt and every other row stay.
C16_UpdateChecksIdBodyExistence ==
    [][ req'.op = "updatePost" =>
          LET id == Number(req'.id)
              noTitle == trim(req'.title) = <<>>
              noContent == trim(req'.content) = <<>>
          IN  /\ resp'.status =
                    IF ~isInteger(id) THEN 422
                    ELSE IF noTitle \/ noContent THEN 422
                    ELSE IF id \notin Ids(posts) THEN 404
                    ELSE 200
              /\ ~isInteger(id) => resp'.error = "Invalid id."
              /\ (isInteger(id) /\ (noTitle \/ noContent)) =>
                    resp'.error = IF noTitle THEN "title is required."
                                  ELSE "content is required."
              /\ resp'.status # 200 =>
                    ~resp'.success /\ posts' = posts /\ postSeq' = postSeq
              /\ resp'.status = 200 =>
                    /\ Ids(posts') = Ids(posts)
                    /\ Cardinality(posts') = Cardinality(posts)
                    /\ \A r \in posts : r.id # id => r \in posts'
                    /\ RowOf(posts', id).createdAt = RowOf(posts, id).createdAt
                    /\ RowOf(posts', id).title = trim(req'.title)
                    /\ RowOf(posts', id).content = trim(req'.content)
                    /\ postSeq' = postSeq ]_vars

\* C16 witness: a PUT for "99999", which no post has, was answered 422
\* because its title is empty.
C16_Witness ==
    /\ req.op = "updatePost"
    /\ req.id = <<57, 57, 57, 57, 57>>
    /\ resp.status = 422
    /\ resp.error = "title is required."

\* The requests of the given kind that have been answered.
Answered(op) ==
    {i \in DOMAIN inflight : inflight[i].pc = "done" /\ inflight[i].op = op}

\* The answered signups whose fields are all given and whose normalized
\* email is the non-empty e.
SignupsFor(e) ==
    {i \in Answered("signup") :
        /\ e # <<>>
        /\ normalizeEmail(inflight[i].body.email) = e
        /\ trim(inflight[i].body.name) # <<>>
        /\ trim(inflight[i].body.password) # <<>>}

\* C17: with requests held at the same time and their handlers run in any
\* order the event loop allows, a create-post or signup answered 201 returns
\* the row that request inserted (no two responses return the same row);
\* no signup is answered 500; and among the signups with the same normalized
\* email exactly one is answered 201 and every other 409 (all 409 when the
\* email is the seed user's).
C17_HandlersRunAtomically ==
    /\ \A i \in Answered("createPost") :
          inflight[i].resp.status = 201 =>
              /\ inflight[i].resp.data.id = inflight[i].lastInsertRowid
              /\ inflight[i].resp.data.title = trim(inflight[i].body.title)
              /\ inflight[i].resp.data.content = trim(inflight[i].body.content)
              /\ inflight[i].resp.data \in posts
              /\ \A j \in Answered("createPost") \ {i} :
                    inflight[j].resp.status = 201 =>
                        inflight[j].resp.data.id # inflight[i].resp.data.id
    /\ \A i \in Answered("signup") :
          /\ inflight[i].resp.status \in {201, 409, 422}
          /\ inflight[i].resp.status = 201 =>
                /\ inflight[i].resp.data.user.id = inflight[i].lastInsertRowid
                /\ inflight[i].resp.data.user.email =
                       normalizeEmail(inflight[i].body.email)
                /\ inflight[i].resp.data.user.name = trim(inflight[i].body.name)
                /\ \A j \in Answered("signup") \ {i} :
                      inflight[j].resp.status = 201 =>
                          inflight[j].resp.data.user.id # inflight[i].resp.data.user.id
    /\ \A i \in Answered("signup") :
          LET e == normalizeEmail(inflight[i].body.email)
              winners == {j \in SignupsFor(e) : inflight[j].resp.status = 201}
          IN  SignupsFor(e) # {} =>
                  /\ \A j \in SignupsFor(e) : inflight[j].resp.status \in {201, 409}
                  /\ Cardinality(winners) = IF e = SeedUser.email THEN 0 ELSE 1

\* C17 witness: two signups with the same normalized email in different
\* letter case, one answered 201 and the other, which arrived while the
\* first one's handler had checked the email and not yet inserted, 409.
C17_Witness ==
    \E i \in Answered("signup"), j \in Answered("signup") :
        /\ i # j
        /\ inflight[i].resp.status = 201
        /\ inflight[j].resp.status = 409
        /\ inflight[i].body.email # inflight[j].body.email
        /\ i \in inflight[j].midHandler

\* C18: a start inserts the three seed posts exactly when it finds table
\* posts empty and the demo user exactly when it finds table users empty; a
\* table it finds non-empty is left as it is; after a start neither table
\* is empty, so a further start without a request in between adds nothing.
C18_SeedIffEmpty ==
    [][ (req'.op = "none" /\ clock' = clock) =>
          /\ IF posts = {}
             THEN /\ Cardinality(posts') = Len(SeedPosts)
                  /\ \A k \in 1..Len(SeedPosts) :
                        \E r \in posts' :
                            /\ r.id = postSeq + k
                            /\ r.title = SeedPosts[k].title
                            /\ r.content = SeedPosts[k].content
                            /\ r.createdAt = toISOString(clock)
                            /\ r.updatedAt = toISOString(clock)
             ELSE posts' = posts /\ postSeq' = postSeq
          /\ IF users = {}
             THEN \E u \in users' :
                      /\ users' = {u}
                      /\ u.name = SeedUser.name
                      /\ u.email = SeedUser.email
                      /\ u.password = SeedUser.password
             ELSE users' = users /\ userSeq' = userSeq
          /\ posts' # {}
          /\ users' # {} ]_vars

\* C18 witness: after a start that found table users empty and a post of
\* the posts-only version in table posts, and a later start that found
\* table posts emptied: the demo user and the seed posts 4, 5 and 6.
C18_Witness ==
    /\ req.op = "none"
    /\ proc = "running"
    /\ Ids(posts) = {4, 5, 6}
    /\ \E r \in LegacyRows : r.id \in deletedIds
    /\ \E u \in users : u.id = 1 /\ u.email = SeedUser.email

\* PORT is set: the variable is there and not empty.
PortGiven == envPort.some /\ envPort.value # <<>>

\* C19: the bind attempts are bounded: with PORT unset (or empty) the ports
\* tried are consecutive from 4000, at most 11 of them (attempts made and
\* retries left always add up to 11), a next port is tried only when the
\* one before is in use, the server runs on the first port that is free,
\* and the process exits with code 1 only after all 11 were found in use;
\* with PORT set there is one attempt, and exit code 1 if that port is in
\* use.
C19_BoundedBindAttempts ==
    LET n == Len(attempts)
    IN  /\ n <= 11
        /\ PortGiven => n <= 1
        /\ (n >= 1 /\ ~PortGiven) => attempts[1] = 4000
        /\ (n >= 1 /\ envPort = Some(<<53, 48, 48, 48>>)) => attempts[1] = 5000
        /\ \A k \in 2..n :
              attempts[k] = attempts[k - 1] + 1 /\ attempts[k - 1] \in inUse
        /\ (n >= 1 /\ ~PortGiven) => n + retriesLeft = 11
        /\ proc = "running" =>
              /\ n >= 1
              /\ attempts[n] \notin inUse
              /\ exitCode = None
        /\ proc = "exited" =>
              /\ exitCode = Some(1)
              /\ \A k \in 1..n : attempts[k] \in inUse
              /\ n = IF PortGiven THEN 1 ELSE 11
        /\ (proc = "binding" /\ n = 11) => ~ENABLED (OnError /\ proc' = "binding")
        /\ (proc = "binding" /\ attempts[n] \in inUse) => ENABLED OnError
        /\ (proc = "binding" /\ attempts[n] \notin inUse /\ attempts[n] >= 1024) =>
              ENABLED Listening

\* C19 witness: with PORT unset and 4000 to 4010 in use, the process has
\* exited with code 1 after 11 attempts.
C19_Witness ==
    /\ proc = "exited"
    /\ exitCode = Some(1)
    /\ ~envPort.some
    /\ Len(attempts) = 11
    /\ attempts[11] = 4010

====
